---- MODULE Spec2Model ----
(***************************************************************************)
(* A model of streamlit_app.py: the schema validator                       *)
(* (validate_schema_match, check_file_schema_compatibility), the stage     *)
(* gateway (S3Handler), the two workflows that save files through it      *)
(* (upload_page, manage_files_page), and the session store and routing of  *)
(* main, select_persona and brand_finance_page.                            *)
(***************************************************************************)
EXTENDS Integers, Sequences, FiniteSets, TLC

(***************************************************************************)
(* Bounds of the model.                                                    *)
(***************************************************************************)
\* longest dataset drawn as an input of the validator
MaxRows == 2
\* the clock runs over the seconds 1..MaxTime
MaxTime == 2
\* page runs one session starts
MaxRuns == 2

(***************************************************************************)
(* Cells.  pd.read_csv hands the validator a column of cells; a cell is    *)
(* written here as the text of its CSV field.                              *)
(***************************************************************************)
NullCells == {""}
IntegralCells == {"3", "3.0", "7", "7.0"}
FractionalCells == {"3.5"}
DateCells == {"2024-01-01"}
TextCells == {"abc"}
NumericCells == IntegralCells \cup FractionalCells
Cells == NullCells \cup NumericCells \cup DateCells \cup TextCells

DataTypes == {"INTEGER", "FLOAT", "DATETIME", "EMAIL", "STRING"}

\* The set of the elements of a sequence.
Range(s) == {s[i] : i \in DOMAIN s}

\* Series.isnull(), elementwise
isnull(c) == c \in NullCells

\* Series.dropna()
dropna(col) == SelectSeq(col, LAMBDA c : ~isnull(c))

\* The dtype pd.read_csv infers for a column: int64 or float64 when every
\* non-null field is a number, object (strings) otherwise.
numeric_dtype(col) == \A c \in Range(dropna(col)) : c \in NumericCells

\* pd.to_numeric(col.dropna()) raises: some field is not a number.
to_numeric_raises(col) == \E c \in Range(dropna(col)) : c \notin NumericCells

\* all(numeric_data.astype(int) == numeric_data)
all_astype_int_equal(col) == \A c \in Range(dropna(col)) : c \in IntegralCells

\* pd.to_datetime(col.dropna()) raises.  A column of numeric dtype never
\* raises: the numbers are read as offsets from the epoch.  In a column of
\* strings free text raises; a number among date strings raises or not with
\* the pandas release and the order of the rows: lenient is that outcome.
to_datetime_raises(col, lenient) ==
    IF numeric_dtype(col)
    THEN FALSE
    ELSE \/ \E c \in Range(dropna(col)) : c \in TextCells
         \/ (\E c \in Range(dropna(col)) : c \in NumericCells) /\ ~lenient

(***************************************************************************)
(* Datasets and schemas.  A dataset (DataFrame) is a header and rows; a    *)
(* schema is the rows of the INFORMATION_SCHEMA.COLUMNS query.             *)
(***************************************************************************)
RECURSIVE IndexOf(_, _, _)
IndexOf(s, x, i) ==
    IF i > Len(s) THEN 0 ELSE IF s[i] = x THEN i ELSE IndexOf(s, x, i + 1)

\* df[col_name]
Column(df, name) ==
    LET k == IndexOf(df.columns, name, 1)
    IN  [i \in 1..Len(df.rows) |-> df.rows[i][k]]

\* schema_columns[col]["nullable"]: row["IS_NULLABLE"].strip().upper() == "YES"
nullable(row) == row.IS_NULLABLE = "YES"

\* no type check at all
type_issues_unchecked(row, col, lenient) == << >>

\* The type check of one column of validate_schema_match: the issues of the
\* try block, in order.
type_issues(row, col, lenient) ==
    IF row.DATA_TYPE = "INTEGER"
    THEN IF to_numeric_raises(col)
         THEN << <<"invalid", row.COLUMN_NAME>> >>
         ELSE IF ~all_astype_int_equal(col)
              THEN << <<"non-integer", row.COLUMN_NAME>> >>
              ELSE << >>
    ELSE IF row.DATA_TYPE = "FLOAT"
    THEN IF to_numeric_raises(col) THEN << <<"invalid", row.COLUMN_NAME>> >> ELSE << >>
    ELSE IF row.DATA_TYPE = "DATETIME"
    THEN IF to_datetime_raises(col, lenient)
         THEN << <<"invalid", row.COLUMN_NAME>> >>
         ELSE << >>
    ELSE << >>

\* The null check of one column of validate_schema_match.
null_issues(row, col) ==
    IF ~nullable(row) /\ (\E c \in Range(col) : isnull(c))
    THEN << <<"null", row.COLUMN_NAME>> >>
    ELSE << >>

\* The loop of validate_schema_match over schema_columns, from row i on.
RECURSIVE column_issues(_, _, _, _)
column_issues(df, schema, lenient, i) ==
    IF i > Len(schema)
    THEN << >>
    ELSE LET row == schema[i]
         IN  (IF row.COLUMN_NAME \notin Range(df.columns)
              THEN << <<"missing", row.COLUMN_NAME>> >>
              ELSE type_issues(row, Column(df, row.COLUMN_NAME), lenient)
                   \o null_issues(row, Column(df, row.COLUMN_NAME)))
             \o column_issues(df, schema, lenient, i + 1)

\* set(df.columns) - set(schema_columns.keys())
extra_cols(df, schema) ==
    Range(df.columns) \ {schema[i].COLUMN_NAME : i \in DOMAIN schema}

extra_issues(df, schema) ==
    IF extra_cols(df, schema) # {} THEN << <<"extra", "">> >> ELSE << >>

validate_issues(df, schema, lenient) ==
    column_issues(df, schema, lenient, 1) \o extra_issues(df, schema)

\* validate_schema_match(df, schema): (is_valid, issues)
validate_schema_match(df, schema, lenient) ==
    [is_valid |-> Len(validate_issues(df, schema, lenient)) = 0,
     issues |-> validate_issues(df, schema, lenient)]

\* The type check of one column of check_file_schema_compatibility.
compat_type_issues(row, col, lenient) ==
    IF row.DATA_TYPE \in {"INTEGER", "FLOAT"}
    THEN IF to_numeric_raises(col) THEN << <<"incompatible", row.COLUMN_NAME>> >> ELSE << >>
    ELSE IF row.DATA_TYPE = "DATETIME"
    THEN IF to_datetime_raises(col, lenient)
         THEN << <<"incompatible", row.COLUMN_NAME>> >>
         ELSE << >>
    ELSE << >>

\* The loop of check_file_schema_compatibility over schema_columns, from row i on.
RECURSIVE compat_column_issues(_, _, _, _)
compat_column_issues(df, schema, lenient, i) ==
    IF i > Len(schema)
    THEN << >>
    ELSE LET row == schema[i]
         IN  (IF row.COLUMN_NAME \notin Range(df.columns)
              THEN << <<"missing", row.COLUMN_NAME>> >>
              ELSE compat_type_issues(row, Column(df, row.COLUMN_NAME), lenient))
             \o compat_column_issues(df, schema, lenient, i + 1)

\* check_file_schema_compatibility(df, schema): (is_compatible, issues)
check_file_schema_compatibility(df, schema, lenient) ==
    LET issues == compat_column_issues(df, schema, lenient, 1) \o extra_issues(df, schema)
    IN  [is_compatible |-> Len(issues) = 0, issues |-> issues]

(***************************************************************************)
(* Files.  The bytes of a stored file: the dataset they hold and who wrote *)
(* them (fmt "raw": as the user's file had them, "pandas": as              *)
(* DataFrame.to_csv writes them).  NoFile stands for no object at a path.  *)
(***************************************************************************)
NoDf == [columns |-> << >>, rows |-> << >>]
NoFile == [data |-> NoDf, fmt |-> "none"]

\* A field with a decimal point makes pd.read_csv read its column as float64,
\* and so does an empty field among numbers.
float_dtype(col) ==
    /\ numeric_dtype(col)
    /\ \E c \in Range(col) : isnull(c) \/ c \in {"3.0", "7.0", "3.5"}

\* A number of a float64 column, as pandas holds and prints it.
as_float(c) == IF c = "3" THEN "3.0" ELSE IF c = "7" THEN "7.0" ELSE c

\* A frame whose columns take the dtype their fields call for.
infer_dtypes(d) ==
    [columns |-> d.columns,
     rows |-> [i \in 1..Len(d.rows) |->
                 [k \in 1..Len(d.columns) |->
                     IF float_dtype(Column(d, d.columns[k]))
                     THEN as_float(d.rows[i][k])
                     ELSE d.rows[i][k]]]]

\* pd.read_csv(bytes)
read_csv(b) == infer_dtypes(b.data)

\* df.to_csv(buffer, index=False)
to_csv(df) == [data |-> df, fmt |-> "pandas"]

(***************************************************************************)
(* The stage.  One external table; its paths are                           *)
(*   {schema}/{table}/{table}.csv                 the active path          *)
(*   {schema}/{table}/archive/{table}_{ts}.csv    one per second ts        *)
(* and two more objects of the table's prefix that this system did not     *)
(* write: one more .csv, and one object that is not a .csv.                *)
(***************************************************************************)
Times == 1..MaxTime
ActivePath == <<"active", 0>>
OtherPath == <<"other", 0>>
\* backup_path (lines 159, 410)
backup_path(ts) == <<"archive", ts>>
ArchivePaths == {backup_path(t) : t \in Times}
NotesPath == <<"notes", 0>>
Paths == {ActivePath, OtherPath, NotesPath} \cup ArchivePaths

\* f.lower().endswith('.csv') (line 339)
ends_csv(p) == p # NotesPath

\* The schema of the table, as the INFORMATION_SCHEMA.COLUMNS query returns it.
TableSchema ==
    << [COLUMN_NAME |-> "id", DATA_TYPE |-> "INTEGER", IS_NULLABLE |-> "NO"],
       [COLUMN_NAME |-> "name", DATA_TYPE |-> "STRING", IS_NULLABLE |-> "YES"] >>

Header == <<"id", "name">>
FileA == [data |-> [columns |-> Header, rows |-> << <<"3", "abc">> >>], fmt |-> "raw"]
FileB == [data |-> [columns |-> Header, rows |-> << <<"7", "">> >>], fmt |-> "raw"]
FileBad == [data |-> [columns |-> Header, rows |-> << <<"3.5", "abc">> >>], fmt |-> "raw"]
FileOld == [data |-> [columns |-> Header, rows |-> << <<"3", "">>, <<"7", "abc">> >>],
            fmt |-> "raw"]
\* a .csv whose id column holds text
FileWrong == [data |-> [columns |-> Header, rows |-> << <<"abc", "abc">> >>], fmt |-> "raw"]
\* an object of the prefix that is not a .csv, though it would read as one
FileNote == [data |-> [columns |-> Header, rows |-> << <<"3", "abc">> >>], fmt |-> "raw"]
\* a file longer than the smallest page of the editor, its last row without
\* an id
FileLong ==
    [data |-> [columns |-> Header,
               rows |-> << <<"3", "abc">>, <<"3", "abc">>, <<"3", "abc">>,
                           <<"3", "abc">>, <<"3", "abc">>, <<"", "abc">> >>],
     fmt |-> "raw"]
\* what a user may hand to st.file_uploader
UserFiles == {FileA, FileB, FileBad}

EmptyStore == [p \in Paths |-> NoFile]
\* The stage as a session may find it: empty, holding an active file,
\* holding one .csv that is not the active path, or holding a long active
\* file beside an incompatible .csv and an object that is not a .csv.
InitStores ==
    {EmptyStore,
     [EmptyStore EXCEPT ![ActivePath] = FileOld],
     [EmptyStore EXCEPT ![OtherPath] = FileOld],
     [EmptyStore EXCEPT ![ActivePath] = FileLong, ![OtherPath] = FileWrong,
                        ![NotesPath] = FileNote]}

Sessions == {"u1", "u2"}

VARIABLES
    store,      \* the stage: path -> bytes
    store0,     \* the stage as it was found
    now,        \* the clock, in seconds
    run,        \* per session: the page run in progress and its locals
    runs,       \* per session: page runs started so far
    superseded, \* the bytes overwritten at a non-archive path so far
    archived,   \* the frames written under archive/ so far
    lenient,    \* pandas' answer to a number among date strings
    session_state, \* per session: st.session_state, the flags of main()
    clicked,    \* per session: "Logout" if its click started the last run
    vIn,        \* the validator's inputs
    vOut        \* the validator's result

vars == <<store, store0, now, run, runs, superseded, archived, lenient,
          session_state, clicked, vIn, vOut>>

\* S3Handler.list_files(prefix), when the LIST succeeds
list_files(st) == {p \in Paths : st[p] # NoFile}

\* S3Handler.file_exists(filename), when the LIST succeeds
file_exists(st, p) == st[p] # NoFile

\* the listing taken unfiltered
csv_files_unfiltered(st) == list_files(st)

\* csv_files (lines 338-340): the listed .csv files outside archive/
csv_files(st) == {p \in list_files(st) : ends_csv(p) /\ p \notin ArchivePaths}

archive_files(st) == {p \in list_files(st) : p \in ArchivePaths}

(***************************************************************************)
(* A page run.  Streamlit runs the page top to bottom on every user        *)
(* action; pc is the statement the run has reached, the other fields are   *)
(* its locals, what it has shown, and what it found when it began to save. *)
(***************************************************************************)
IdleRun ==
    [pc |-> "idle", page |-> "none",
     file |-> NoFile,          \* uploaded_file
     click |-> FALSE,          \* st.button("Upload File") / ("Save Changes")
     verdict |-> "none",       \* is_valid of this run: none, valid, invalid
     bytes |-> NoFile,         \* what upload_file is given
     target |-> ActivePath,    \* file_path / selected_file
     ts |-> 0,                 \* timestamp
     df |-> NoDf,              \* the frame rename_file / get_file has read
     got |-> FALSE,            \* rename_file has read df
     compatible |-> {},        \* compatible_files
     listed |-> {},            \* all_files, what list_files returned
     checked |-> {},           \* the files the compatibility check was given
     page_df |-> NoDf,         \* df.iloc[start_idx:end_idx]
     edited |-> NoDf,          \* edited_df, as validate_schema_match got it
     calls |-> << >>,          \* the external calls made, with their outcome
     shown |-> << >>,          \* the st.error / st.success / st.info shown
     uncaught |-> FALSE,       \* an exception left the page function
     prev |-> NoFile,          \* bytes at target when upload_file wrote
     before |-> {},            \* archive paths listed when the save began
     stored |-> FALSE,         \* upload_file has written bytes to target
     began |-> EmptyStore]     \* the stage as it was when the run began

Call(op, ok) == <<op, ok>>

\* The run of session u becomes r.
Becomes(u, r) == run' = [run EXCEPT ![u] = r]

\* The page function returns, or an exception leaves it.
Ended(r) == [r EXCEPT !.pc = "done"]
Thrown(r) == [r EXCEPT !.pc = "done", !.uncaught = TRUE]

Quiet ==
    UNCHANGED <<store, store0, now, runs, superseded, archived, lenient,
                session_state, clicked, vIn, vOut>>

(***************************************************************************)
(* main, select_persona and brand_finance_page: the session store and the  *)
(* routing.  st.session_state holds no key until main() first runs.        *)
(***************************************************************************)
NoKeys == << >>

\* main, lines 773-777: each flag is set if it is not in st.session_state
init_session_state(ss) ==
    [show_main_app |-> IF "show_main_app" \in DOMAIN ss THEN ss.show_main_app ELSE FALSE,
     persona |-> IF "persona" \in DOMAIN ss THEN ss.persona ELSE "None"]

\* the options of the radio of select_persona (line 616)
Personas == {"Brand Finance"}

\* main, lines 780 and 789: the run gets past select_persona and into
\* brand_finance_page
shows_brand_finance_page(ss) ==
    /\ DOMAIN ss # {}
    /\ ss.show_main_app
    /\ ss.persona = "Brand Finance"

\* The browser session opens the application: main() runs for the first
\* time, sets the flags and shows select_persona.
OpenApp(u) ==
    /\ run[u].pc = "idle"
    /\ DOMAIN session_state[u] = {}
    /\ session_state' = [session_state EXCEPT ![u] = init_session_state(@)]
    /\ UNCHANGED <<store, store0, now, run, runs, superseded, archived, lenient,
                   clicked, vIn, vOut>>

\* select_persona, lines 614-625: the user clicks "Continue"; the run
\* st.rerun() starts shows brand_finance_page with no box ticked.
Continue(u) ==
    /\ run[u].pc = "idle"
    /\ DOMAIN session_state[u] # {}
    /\ ~session_state[u].show_main_app
    /\ \E persona \in Personas :
          session_state' = [session_state EXCEPT
                               ![u] = [init_session_state(@) EXCEPT
                                          !.persona = persona, !.show_main_app = TRUE]]
    /\ clicked' = [clicked EXCEPT ![u] = "none"]
    /\ UNCHANGED <<store, store0, now, run, runs, superseded, archived, lenient, vIn, vOut>>

\* The user acts with neither "File Upload" nor "Manage Files" ticked: the
\* run goes straight to the button of line 582.
StartHome(u) ==
    /\ run[u].pc = "idle"
    /\ shows_brand_finance_page(session_state[u])
    /\ Becomes(u, [IdleRun EXCEPT !.pc = "done", !.page = "home", !.began = store])
    /\ Quiet

(***************************************************************************)
(* upload_page and manage_files_page, up to the schema query.              *)
(***************************************************************************)
\* The user acts with "File Upload" ticked: a file in the uploader or none,
\* the "Upload File" button pressed or not.
StartUpload(u, limit) ==
    /\ run[u].pc = "idle"
    /\ runs[u] < limit
    /\ shows_brand_finance_page(session_state[u])
    /\ \E f \in UserFiles \cup {NoFile}, c \in BOOLEAN :
          Becomes(u, [IdleRun EXCEPT !.pc = "tables", !.page = "upload",
                                     !.file = f, !.click = c, !.began = store])
    /\ runs' = [runs EXCEPT ![u] = @ + 1]
    /\ UNCHANGED <<store, store0, now, superseded, archived, lenient, session_state,
                   clicked, vIn, vOut>>

\* The user acts with "Manage Files" ticked.
StartManage(u, limit) ==
    /\ run[u].pc = "idle"
    /\ runs[u] < limit
    /\ shows_brand_finance_page(session_state[u])
    /\ Becomes(u, [IdleRun EXCEPT !.pc = "connect", !.page = "manage", !.began = store])
    /\ runs' = [runs EXCEPT ![u] = @ + 1]
    /\ UNCHANGED <<store, store0, now, superseded, archived, lenient, session_state,
                   clicked, vIn, vOut>>

\* manage_files_page, lines 281-283: get_active_session() and S3Handler(),
\* outside every try.
ManageConnect(u) ==
    /\ run[u].pc = "connect"
    /\ run[u].page = "manage"
    /\ \E ok \in BOOLEAN :
          LET r == [run[u] EXCEPT !.calls = @ \o <<Call("S3Handler", ok)>>]
          IN  Becomes(u, IF ok THEN [r EXCEPT !.pc = "tables"] ELSE Thrown(r))
    /\ Quiet

\* lines 86-97 and 299-310: the INFORMATION_SCHEMA.TABLES query, outside
\* every try.
QueryTables(u) ==
    /\ run[u].pc = "tables"
    /\ \E ok \in BOOLEAN :
          LET r == [run[u] EXCEPT !.calls = @ \o <<Call("tables", ok)>>]
          IN  Becomes(u, IF ok THEN [r EXCEPT !.pc = "schema"] ELSE Thrown(r))
    /\ Quiet

\* lines 110-118 and 324-332: the INFORMATION_SCHEMA.COLUMNS query, outside
\* every try.
QuerySchema(u) ==
    /\ run[u].pc = "schema"
    /\ \E ok \in BOOLEAN :
          LET r == [run[u] EXCEPT !.calls = @ \o <<Call("columns", ok)>>]
          IN  Becomes(u, IF ~ok THEN Thrown(r)
                         ELSE IF r.page = "upload" THEN [r EXCEPT !.pc = "validate"]
                         ELSE [r EXCEPT !.pc = "list"])
    /\ Quiet

(***************************************************************************)
(* upload_page, lines 130-166.                                             *)
(***************************************************************************)
\* file_path built from the name of the uploaded file, not of the table
file_path_of_upload == OtherPath

\* line 154: file_path
file_path == ActivePath

\* the return of line 143 left out: the issues are shown and the save goes on
upload_validated_no_return(r, is_valid) ==
    IF ~r.click THEN Ended([r EXCEPT !.verdict = IF is_valid THEN "valid" ELSE "invalid"])
    ELSE [r EXCEPT !.verdict = IF is_valid THEN "valid" ELSE "invalid",
                   !.shown = IF is_valid THEN @ ELSE @ \o <<"Schema validation failed">>,
                   !.pc = "connect", !.bytes = r.file, !.target = file_path]

\* lines 139-154: what the run does with the verdict: show the issues and
\* return, or show the preview and, when the button was pressed, go on to save.
upload_validated(r, is_valid) ==
    IF ~is_valid
    THEN Ended([r EXCEPT !.verdict = "invalid",
                         !.shown = @ \o <<"Schema validation failed">>])
    ELSE IF ~r.click THEN Ended([r EXCEPT !.verdict = "valid"])
    ELSE [r EXCEPT !.verdict = "valid", !.pc = "connect",
                   !.bytes = r.file, !.target = file_path]

\* lines 130-151: read the file, validate it, show the issues or the preview.
UploadValidate(u) ==
    /\ run[u].pc = "validate"
    /\ LET r == run[u]
           res == validate_schema_match(read_csv(r.file), TableSchema, lenient)
       IN  Becomes(u, IF r.file = NoFile THEN Ended(r)
                      ELSE upload_validated(r, res.is_valid))
    /\ Quiet

\* line 153: S3Handler(), inside the try of line 152.
UploadConnect(u) ==
    /\ run[u].pc = "connect"
    /\ run[u].page = "upload"
    /\ \E ok \in BOOLEAN :
          LET r == [run[u] EXCEPT !.calls = @ \o <<Call("S3Handler", ok)>>]
          IN  Becomes(u, IF ok THEN [r EXCEPT !.pc = "exists"]
                         ELSE [r EXCEPT !.pc = "refresh",
                                        !.shown = @ \o <<"Upload failed">>])
    /\ Quiet

\* lines 157-159: s3.file_exists(file_path), and the timestamp when it exists.
UploadExists(u) ==
    /\ run[u].pc = "exists"
    /\ \E ok \in BOOLEAN :
          LET r == [run[u] EXCEPT !.calls = @ \o <<Call("exists", ok)>>,
                                  !.before = archive_files(store)]
          IN  Becomes(u,
                IF ~ok THEN [r EXCEPT !.pc = "refresh", !.shown = @ \o <<"Upload failed">>]
                ELSE IF file_exists(store, r.target)
                THEN [r EXCEPT !.pc = "rename_get", !.ts = now]
                ELSE [r EXCEPT !.pc = "upload"])
    /\ Quiet

(***************************************************************************)
(* S3Handler.rename_file(old_name, new_name), lines 470-500: read the old  *)
(* file, write it under the new name.  Whatever is raised is caught inside *)
(* and shown; the caller goes on.                                          *)
(***************************************************************************)
\* line 161: on the Upload page the return of rename_file is answered by
\* st.info("Existing file backed up with timestamp"), whatever it did.
backed_up(r) == IF r.page = "upload" THEN <<"Existing file backed up">> ELSE << >>

\* line 472: get_file(old_name), a LIST and a GET.  A file that is not there
\* reads as None, and df.to_csv raises on it.
RenameGet(u) ==
    /\ run[u].pc = "rename_get"
    /\ \E ok \in BOOLEAN :
          LET r == run[u]
          IN  Becomes(u,
                IF ok /\ file_exists(store, r.target)
                THEN [r EXCEPT !.pc = "rename_put", !.got = TRUE,
                               !.df = read_csv(store[r.target])]
                ELSE [r EXCEPT !.pc = "upload",
                               !.calls = @ \o <<Call("rename", FALSE)>>,
                               !.shown = @ \o <<"Error renaming file">> \o backed_up(r)])
    /\ Quiet

\* a rename that moves: the old file is removed once the copy is written
put_renamed_moving(st, old_name, new_name, df) ==
    [st EXCEPT ![new_name] = to_csv(df), ![old_name] = NoFile]

\* a rename whose put goes to the directory of the old file
put_renamed_beside(st, old_name, new_name, df) ==
    [st EXCEPT ![OtherPath] = to_csv(df)]

\* lines 482-495: the stage after df.to_csv(temp_path) and
\* session.file.put(temp_path, ..., overwrite=True).  The old file is left
\* where it is.
put_renamed(st, old_name, new_name, df) == [st EXCEPT ![new_name] = to_csv(df)]

\* lines 482-497: the second half of rename_file.
RenamePut(u) ==
    /\ run[u].pc = "rename_put"
    /\ \E ok \in BOOLEAN :
          LET r == [run[u] EXCEPT !.pc = "upload", !.calls = @ \o <<Call("rename", ok)>>]
          IN  /\ Becomes(u, IF ok THEN [r EXCEPT !.shown = @ \o backed_up(r)]
                            ELSE [r EXCEPT !.shown = @ \o <<"Error renaming file">>
                                                       \o backed_up(r)])
              /\ store' = IF ok
                          THEN put_renamed(store, r.target, backup_path(r.ts), r.df)
                          ELSE store
              /\ archived' = IF ok THEN archived \cup {r.df} ELSE archived
    /\ UNCHANGED <<store0, now, runs, superseded, lenient, session_state, clicked,
                   vIn, vOut>>

\* an upload that waits while another session is between its rename and its
\* upload
at_upload_exclusive(u) ==
    /\ run[u].pc = "upload"
    /\ \A v \in Sessions \ {u} : run[v].pc \notin {"rename_get", "rename_put", "upload"}

\* Lines 165 and 416 are reached whenever rename_file has returned: nothing
\* else is waited for.
at_upload(u) == run[u].pc = "upload"

\* S3Handler.upload_file(file_obj, filename), lines 446-450, as lines 165 and
\* 416 call it: put_stream(..., overwrite=True).  What it raises is caught at
\* line 174 or 424.
Upload(u) ==
    /\ at_upload(u)
    /\ \E ok \in BOOLEAN :
          LET r == [run[u] EXCEPT !.pc = "refresh", !.calls = @ \o <<Call("upload", ok)>>]
          IN  /\ Becomes(u,
                    IF ok
                    THEN [r EXCEPT !.stored = TRUE, !.prev = store[r.target],
                                   !.shown = @ \o (IF r.page = "upload"
                                                    THEN <<"File uploaded successfully">>
                                                    ELSE <<"Changes saved successfully",
                                                           "Previous version backed up">>)]
                    ELSE [r EXCEPT !.shown = @ \o
                             <<IF r.page = "upload" THEN "Upload failed" ELSE "Save failed">>])
              /\ store' = IF ok THEN [store EXCEPT ![r.target] = r.bytes] ELSE store
              /\ superseded' = IF ok /\ store[r.target] # NoFile
                               THEN superseded \cup {store[r.target]}
                               ELSE superseded
    /\ UNCHANGED <<store0, now, runs, archived, lenient, session_state, clicked,
                   vIn, vOut>>

\* lines 177-181 and 427-431: ALTER EXTERNAL TABLE ... REFRESH, in a try of
\* its own, after the try of the save.
Refresh(u) ==
    /\ run[u].pc = "refresh"
    /\ \E ok \in BOOLEAN :
          Becomes(u, Ended([run[u] EXCEPT
                              !.calls = @ \o <<Call("refresh", ok)>>,
                              !.shown = @ \o <<IF ok THEN "External table refreshed"
                                               ELSE "Failed to refresh external table">>]))
    /\ Quiet

\* brand_finance_page, lines 580-590, where the page function has returned:
\* st.sidebar.button("Logout") answers whether a click on "Logout" started
\* this run (then no other button did).  A run an exception has ended never
\* reaches the button.  Then the run is over and the page waits for the
\* next user action.
Finish(u) ==
    /\ run[u].pc = "done"
    /\ Becomes(u, IdleRun)
    /\ \E logout \in {FALSE, ~run[u].click} :
          /\ clicked' = [clicked EXCEPT ![u] = IF logout THEN "Logout" ELSE "none"]
          /\ session_state' =
                IF logout /\ ~run[u].uncaught
                THEN [session_state EXCEPT ![u] = [@ EXCEPT !.show_main_app = FALSE,
                                                            !.persona = "None"]]
                ELSE session_state
    /\ UNCHANGED <<store, store0, now, runs, superseded, archived, lenient, vIn, vOut>>

(***************************************************************************)
(* manage_files_page, lines 337-431.                                       *)
(***************************************************************************)
\* the slider of line 383: 5 to 50, 10 unless moved
MinRowsPerPage == 5
DefaultRowsPerPage == 10
PageSizes == {MinRowsPerPage, DefaultRowsPerPage}

\* lines 337-359: list the prefix, keep the .csv files outside archive/, and
\* of those the ones get_file can read and the compatibility check accepts.
\* list_files catches what LIST raises and returns []; a get_file that
\* raises is caught at line 354 and drops that file.
ManageList(u) ==
    /\ run[u].pc = "list"
    /\ \E ok \in BOOLEAN, unread \in SUBSET csv_files(store) :
          LET r == [run[u] EXCEPT !.calls = @ \o <<Call("list", ok)>>]
              listed == IF ok THEN csv_files(store) ELSE {}
              all_files == IF ok THEN list_files(store) ELSE {}
              good == {p \in listed \ unread :
                          check_file_schema_compatibility(
                              read_csv(store[p]), TableSchema, lenient).is_compatible}
              s1 == IF ok THEN << >> ELSE <<"Error listing files">>
              s2 == IF listed \cap unread # {} THEN <<"Error checking file">> ELSE << >>
          IN  /\ ~ok => unread = {}
              /\ Becomes(u,
                    IF good = {}
                    THEN Ended([r EXCEPT !.shown = @ \o s1 \o s2])
                    ELSE [r EXCEPT !.pc = "load", !.compatible = good,
                                   !.listed = all_files,
                                   !.checked = listed \ unread,
                                   !.shown = @ \o s1 \o s2])
    /\ Quiet

\* lines 362-372: the user selects one of compatible_files; get_file loads
\* it.  What it raises is caught at line 436.
ManageLoad(u) ==
    /\ run[u].pc = "load"
    /\ \E f \in run[u].compatible, ok \in BOOLEAN :
          LET r == [run[u] EXCEPT !.target = f, !.calls = @ \o <<Call("download", ok)>>]
          IN  Becomes(u,
                IF ok
                THEN [r EXCEPT !.pc = "edit", !.df = read_csv(store[f])]
                ELSE Ended([r EXCEPT !.shown = @ \o <<"Error loading file">>]))
    /\ Quiet

\* lines 384-386: the rows of page `page`
page_rows(df, rows_per_page, page) ==
    LET start_idx == (page - 1) * rows_per_page
        end_idx == IF start_idx + rows_per_page < Len(df.rows)
                   THEN start_idx + rows_per_page ELSE Len(df.rows)
    IN  [columns |-> df.columns,
         rows |-> [i \in 1..(IF end_idx > start_idx THEN end_idx - start_idx ELSE 0)
                     |-> df.rows[start_idx + i]]]

\* what the user may type into the first cell of the editor
EditValues == {"7", "3.5"}

\* st.data_editor(df.iloc[start_idx:end_idx]): the page as the user left it.
edited_frames(page_df) ==
    {page_df} \cup
    (IF Len(page_df.rows) = 0 THEN {}
     ELSE {infer_dtypes([page_df EXCEPT !.rows[1][1] = v]) : v \in EditValues})

\* the whole loaded file, with the edited page left aside
csv_buffer_of_file(df, edited_df) == to_csv(df)

\* lines 414-415: edited_df.to_csv(csv_buffer, index=False)
csv_buffer(df, edited_df) == to_csv(edited_df)

\* lines 383-419: the page shown, the user's edits, "Save Changes", the
\* validation of edited_df, the timestamp and the bytes to_csv makes of it.
ManageEdit(u) ==
    /\ run[u].pc = "edit"
    /\ \E rows_per_page \in PageSizes, c \in BOOLEAN :
       \E page \in 1..((Len(run[u].df.rows) \div rows_per_page) + 1) :
       \E edited_df \in edited_frames(page_rows(run[u].df, rows_per_page, page)) :
          LET shown_page == page_rows(run[u].df, rows_per_page, page)
              r == IF c THEN [run[u] EXCEPT !.click = c, !.page_df = shown_page,
                                            !.edited = edited_df]
                   ELSE run[u]
              res == validate_schema_match(edited_df, TableSchema, lenient)
          IN  Becomes(u,
                IF ~c THEN Ended(r)
                ELSE IF ~res.is_valid
                THEN Ended([r EXCEPT !.verdict = "invalid",
                                     !.shown = @ \o <<"Validation failed">>])
                ELSE [r EXCEPT !.verdict = "valid", !.pc = "rename_get",
                               !.ts = now, !.bytes = csv_buffer(run[u].df, edited_df),
                               !.before = archive_files(store),
                               !.df = NoDf])
    /\ Quiet

\* A second passes.
Tick ==
    /\ now < MaxTime
    /\ now' = now + 1
    /\ UNCHANGED <<store, store0, run, runs, superseded, archived, lenient,
                   session_state, clicked, vIn, vOut>>

Step(u, limit) ==
    \/ OpenApp(u)
    \/ Continue(u)
    \/ StartHome(u)
    \/ StartUpload(u, limit)
    \/ StartManage(u, limit)
    \/ ManageConnect(u)
    \/ QueryTables(u)
    \/ QuerySchema(u)
    \/ UploadValidate(u)
    \/ UploadConnect(u)
    \/ UploadExists(u)
    \/ RenameGet(u)
    \/ RenamePut(u)
    \/ Upload(u)
    \/ Refresh(u)
    \/ ManageList(u)
    \/ ManageLoad(u)
    \/ ManageEdit(u)
    \/ Finish(u)

NoInput == [df |-> NoDf, schema |-> << >>]
NoOutput ==
    [done |-> FALSE, is_valid |-> FALSE, issues |-> << >>,
     checked |-> FALSE, is_compatible |-> FALSE]

Init ==
    /\ store0 \in InitStores
    /\ store = store0
    /\ now = 1
    /\ run = [u \in Sessions |-> IdleRun]
    /\ runs = [u \in Sessions |-> 0]
    /\ superseded = {}
    /\ archived = {}
    /\ lenient = FALSE
    /\ session_state = [u \in Sessions |-> NoKeys]
    /\ clicked = [u \in Sessions |-> "none"]
    /\ vIn = NoInput
    /\ vOut = NoOutput

\* One session.
Next == Tick \/ Step("u1", MaxRuns)

Spec == Init /\ [][Next]_vars

\* Two sessions on the same table, each running a page once, on a stage
\* that holds .csv files only.
InitConcurrent == Init /\ store0[NotesPath] = NoFile

NextConcurrent == Tick \/ \E u \in Sessions : Step(u, 1)

SpecConcurrent == InitConcurrent /\ [][NextConcurrent]_vars

(***************************************************************************)
(* The validator on its own: every dataset and schema of the bounded sets  *)
(* below is handed to validate_schema_match.                               *)
(***************************************************************************)
\* the fields drawn for column "id" and for column "name"
IdCells == {"", "3", "3.0", "3.5", "2024-01-01", "abc"}
NameCells == {"", "abc"}

SubHeaders == {<< >>, <<"id">>, <<"name">>, <<"id", "name">>}

ProbeRows(header) ==
    IF header = << >> THEN {<< >>}
    ELSE IF header = <<"id">> THEN {<<a>> : a \in IdCells}
    ELSE IF header = <<"name">> THEN {<<b>> : b \in NameCells}
    ELSE {<<a, b>> : a \in IdCells, b \in NameCells}

ProbeFrames ==
    UNION {UNION {{[columns |-> h, rows |-> rs] : rs \in [1..n -> ProbeRows(h)]}
                  : n \in 0..MaxRows}
           : h \in SubHeaders}

SchemaRows(name) ==
    {[COLUMN_NAME |-> name, DATA_TYPE |-> t, IS_NULLABLE |-> n] :
        t \in DataTypes, n \in {"YES", "NO"}}

ProbeSchemas ==
    {<< >>}
    \cup {<<a>> : a \in SchemaRows("id")}
    \cup {<<b>> : b \in SchemaRows("name")}
    \cup {<<a, b>> : a \in SchemaRows("id"), b \in SchemaRows("name")}

InitValidate ==
    /\ store0 = EmptyStore
    /\ store = store0
    /\ now = 1
    /\ run = [u \in Sessions |-> IdleRun]
    /\ runs = [u \in Sessions |-> 0]
    /\ superseded = {}
    /\ archived = {}
    /\ lenient \in BOOLEAN
    /\ session_state = [u \in Sessions |-> NoKeys]
    /\ clicked = [u \in Sessions |-> "none"]
    /\ vIn \in [df : {infer_dtypes(d) : d \in ProbeFrames}, schema : ProbeSchemas]
    /\ vOut = NoOutput

\* is_valid, issues = validate_schema_match(df, schema)
Validate ==
    /\ ~vOut.done
    /\ vOut' = [vOut EXCEPT
                  !.done = TRUE,
                  !.is_valid = validate_schema_match(vIn.df, vIn.schema, lenient).is_valid,
                  !.issues = validate_schema_match(vIn.df, vIn.schema, lenient).issues]
    /\ UNCHANGED <<store, store0, now, run, runs, superseded, archived, lenient,
                   session_state, clicked, vIn>>

\* is_compatible, _ = check_file_schema_compatibility(df, schema)
CheckCompatibility ==
    /\ ~vOut.checked
    /\ vOut' = [vOut EXCEPT
                  !.checked = TRUE,
                  !.is_compatible =
                      check_file_schema_compatibility(vIn.df, vIn.schema, lenient).is_compatible]
    /\ UNCHANGED <<store, store0, now, run, runs, superseded, archived, lenient,
                   session_state, clicked, vIn>>

NextValidate == Validate \/ CheckCompatibility

SpecValidate == InitValidate /\ [][NextValidate]_vars

(***************************************************************************)
(* C1.                                                                     *)
(***************************************************************************)
SchemaNames(schema) == {schema[i].COLUMN_NAME : i \in DOMAIN schema}

\* The rule of a declared type for one non-null cell, as the specification
\* words it.
ParsesAs(type, c) ==
    IF type = "INTEGER" THEN c \in IntegralCells
    ELSE IF type = "FLOAT" THEN c \in NumericCells
    ELSE IF type = "DATETIME" THEN c \in DateCells
    ELSE TRUE

Conforms(df, schema) ==
    /\ Range(df.columns) = SchemaNames(schema)
    /\ \A i \in DOMAIN schema :
          schema[i].COLUMN_NAME \in Range(df.columns) =>
             LET col == Column(df, schema[i].COLUMN_NAME)
             IN  /\ schema[i].IS_NULLABLE = "NO" => \A c \in Range(col) : ~isnull(c)
                 /\ \A c \in Range(col) : ~isnull(c) => ParsesAs(schema[i].DATA_TYPE, c)

\* C1: validate_schema_match(D, S) is valid if and only if D has exactly the
\* columns of S, no non-nullable column has a null cell, and every non-null
\* cell of an INTEGER, FLOAT or DATETIME column parses under the rule of its
\* type (INTEGER: a number with no fractional part, FLOAT: a number,
\* DATETIME: a date/time).
C1_ValidIffConforms ==
    vOut.done => (vOut.is_valid <=> Conforms(vIn.df, vIn.schema))

(***************************************************************************)
(* What the claims below read off a run.                                   *)
(***************************************************************************)
SaveOps == {"exists", "rename", "upload", "refresh"}

\* the calls of the save sequence a run has made, in order
SaveCalls(r) == SelectSeq(r.calls, LAMBDA c : c[1] \in SaveOps)

Called(r, op) == \E i \in DOMAIN r.calls : r.calls[i][1] = op
Completed(r, op) == \E i \in DOMAIN r.calls : r.calls[i] = Call(op, TRUE)
Failed(r) == {i \in DOMAIN r.calls : ~r.calls[i][2]}

IsPrefix(a, b) == Len(a) <= Len(b) /\ \A i \in DOMAIN a : a[i] = b[i]

\* content c is held under some archive path of the table
InArchive(st, c) ==
    \E p \in ArchivePaths : st[p] # NoFile /\ read_csv(st[p]) = read_csv(c)

(***************************************************************************)
(* C2.                                                                     *)
(***************************************************************************)
\* C2: in a run of the Upload page the calls of the save happen in the order
\* existence check, rename (if and only if the check found the active file),
\* upload, refresh, each only after the ones before it completed; the
\* refresh is asked only after the new content was uploaded.
C2_SaveOrder ==
    \A u \in Sessions :
       LET r == run[u]
           sc == SaveCalls(r)
           ops == [i \in DOMAIN sc |-> sc[i][1]]
       IN  r.page = "upload" =>
             /\ \/ IsPrefix(ops, <<"exists", "rename", "upload", "refresh">>)
                \/ IsPrefix(ops, <<"exists", "upload", "refresh">>)
             /\ \A i \in DOMAIN sc : i > 1 => sc[i - 1][2]
             /\ Called(r, "rename") => file_exists(r.began, r.target)
             /\ Called(r, "upload") /\ file_exists(r.began, r.target)
                   => Called(r, "rename")
             /\ Called(r, "refresh") => r.stored

(***************************************************************************)
(* C3.                                                                     *)
(***************************************************************************)
\* C3: whatever a save overwrote at a non-archive path is, from then on,
\* held under an archive path of the table, also when the rename failed.
C3_SupersededIsArchived ==
    \A c \in superseded : InArchive(store, c)

(***************************************************************************)
(* C4.                                                                     *)
(***************************************************************************)
\* C4, as claimed: after a completed save the listing shows the active path
\* and strictly more archive paths than before the save.
C4_StrictlyMoreArchives ==
    \A u \in Sessions :
       run[u].stored =>
          /\ ActivePath \in list_files(store)
          /\ Cardinality(archive_files(store)) > Cardinality(run[u].before)

\* C4, amended: after a completed save the listing shows the path saved to,
\* and the archive paths are those of before the save plus, when the rename
\* of this save succeeded, the backup path of its second: never fewer, and
\* strictly more exactly when the rename succeeded and no archive of that
\* second was there.
C4_ArchivesNeverFewer ==
    LET r == run["u1"]
    IN  r.stored =>
          /\ r.target \in list_files(store)
          /\ archive_files(store) =
                r.before \cup (IF Completed(r, "rename") THEN {backup_path(r.ts)} ELSE {})
          /\ Cardinality(archive_files(store)) >= Cardinality(r.before)
          /\ Cardinality(archive_files(store)) > Cardinality(r.before)
                <=> Completed(r, "rename") /\ backup_path(r.ts) \notin r.before

\* a save whose rename added an archive path
C4_Witness ==
    LET r == run["u1"]
    IN  /\ r.stored
        /\ Failed(r) = {}
        /\ Completed(r, "rename")
        /\ Cardinality(archive_files(store)) > Cardinality(r.before)

(***************************************************************************)
(* C5.                                                                     *)
(***************************************************************************)
\* C5: the same valid file uploaded twice through the Upload page, the
\* prefix empty at first, leaves one active file and one archive entry,
\* both holding the file's content.
C5_UploadTwice ==
    LET r == run["u1"]
    IN  /\ store0 = EmptyStore
        /\ runs["u1"] = 2
        /\ r.page = "upload"
        /\ r.stored
        /\ r.prev = r.bytes
       => /\ csv_files(store) = {ActivePath}
          /\ store[ActivePath] = r.bytes
          /\ Cardinality(archive_files(store)) = 1
          /\ InArchive(store, r.bytes)

(***************************************************************************)
(* C6.                                                                     *)
(***************************************************************************)
IsValid(b) == validate_schema_match(read_csv(b), TableSchema, lenient).is_valid

\* C6: a run whose validation failed shows the issues and ends: it makes no
\* call of the save, the stage is as the run found it, and the page takes
\* the next user action; a run that saves has validated what it writes, and
\* whatever this system wrote to a non-archive path is valid.
C6_RejectedNeverStored ==
    LET r == run["u1"]
    IN  /\ r.verdict = "invalid" =>
             /\ r.pc = "done"
             /\ SaveCalls(r) = << >>
             /\ ~r.stored
             /\ store = r.began
             /\ r.shown # << >>
             /\ r.shown[Len(r.shown)] \in {"Schema validation failed", "Validation failed"}
             /\ ENABLED Finish("u1")
        /\ SaveCalls(r) # << >> \/ r.pc \in {"exists", "rename_get", "rename_put", "upload"}
              => r.verdict = "valid" /\ IsValid(r.bytes)
        /\ \A p \in {ActivePath, OtherPath} : store[p] # store0[p] => IsValid(store[p])

\* the Manage Files page has refused an edit of a stored file
C6_Witness ==
    /\ run["u1"].verdict = "invalid"
    /\ run["u1"].page = "manage"
    /\ run["u1"].pc = "done"

(***************************************************************************)
(* C7.                                                                     *)
(***************************************************************************)
\* C7, as claimed: once the rename of a save has completed and before its
\* upload, the path saved to holds no file.
C7_ActiveSlotFreed ==
    \A u \in Sessions :
       run[u].pc = "upload" /\ Completed(run[u], "rename") => store[run[u].target] = NoFile

\* C7, amended: once the rename of a save has completed and before its
\* upload, the path saved to still holds the file it held when the run
\* began, and the backup path holds a copy of it: the rename is a copy, and
\* a crash there leaves the old active file in place.
C7_ActiveKept ==
    LET r == run["u1"]
    IN  r.pc = "upload" /\ Completed(r, "rename") =>
          /\ store[r.target] # NoFile
          /\ store[r.target] = r.began[r.target]
          /\ read_csv(store[backup_path(r.ts)]) = read_csv(store[r.target])

C7_Witness ==
    run["u1"].pc = "upload" /\ Completed(run["u1"], "rename")

(***************************************************************************)
(* C8.                                                                     *)
(***************************************************************************)
\* C8: two sessions saving to the same table are not coordinated: a run
\* that has begun can take its next step wherever the other session is, in
\* particular between the other's existence check, rename and upload.
C8_Uncoordinated ==
    \A u \in Sessions : run[u].pc # "idle" => ENABLED Step(u, 1)

\* Both sessions have saved, no call of either failed, and a content that
\* was active has been overwritten without ever being written under archive/.
C8_Witness ==
    /\ \A u \in Sessions : run[u].stored /\ Failed(run[u]) = {}
    /\ \E c \in superseded : read_csv(c) \notin archived

(***************************************************************************)
(* C9.                                                                     *)
(***************************************************************************)
\* C9, as claimed: if the stage held at most one non-archived .csv at first,
\* it holds at most one after any sequence of saves.
C9_AtMostOneActive ==
    Cardinality(csv_files(store0)) <= 1 => Cardinality(csv_files(store)) <= 1

\* C9, amended: the saves add no non-archived .csv but the active path; so
\* if the stage held no non-archived .csv other than the active path at
\* first, it holds at most one after any sequence of saves.
C9_OnlyActiveAdded ==
    /\ csv_files(store) \subseteq csv_files(store0) \cup {ActivePath}
    /\ csv_files(store0) \subseteq {ActivePath} => Cardinality(csv_files(store)) <= 1

\* a first upload was followed by a saved edit
C9_Witness ==
    /\ store0 = EmptyStore
    /\ run["u1"].page = "manage"
    /\ run["u1"].stored
    /\ Failed(run["u1"]) = {}
    /\ csv_files(store) = {ActivePath}

(***************************************************************************)
(* C10.                                                                    *)
(***************************************************************************)
ErrorMessages ==
    {"Upload failed", "Save failed", "Error renaming file", "Error listing files",
     "Error loading file", "Failed to refresh external table"}

\* C10: whichever call fails, the failure is caught and answered by a
\* message, and no run ends in an uncaught error.
C10_EveryFailureCaught ==
    \A u \in Sessions :
       /\ ~run[u].uncaught
       /\ Cardinality(Failed(run[u]))
             <= Len(SelectSeq(run[u].shown, LAMBDA m : m \in ErrorMessages))

(***************************************************************************)
(* C11.                                                                    *)
(***************************************************************************)
\* the steps of manage_files_page after the compatibility filter
AfterFilter == {"load", "edit", "rename_get", "rename_put", "upload", "refresh"}
\* the steps of manage_files_page after a file was selected and loaded
AfterSelect == AfterFilter \ {"load"}

\* The compatibility check was given p as the stage st holds it and
\* answered compatible.
ReturnsCompatible(r, st, p) ==
    /\ p \in r.checked
    /\ check_file_schema_compatibility(read_csv(st[p]), TableSchema, lenient).is_compatible

\* C11: the files offered for selection are exactly the listed files that
\* end in .csv, are not under archive/, and for which the compatibility
\* check returns compatible; the file an Edit run loads, archives and
\* overwrites is one of them, so never an archived or an incompatible file.
C11_OnlyCompatibleOffered ==
    \A u \in Sessions :
       LET r == run[u]
       IN  /\ r.page = "manage" /\ r.pc \in AfterFilter =>
                r.compatible = {p \in r.listed : /\ ends_csv(p)
                                                 /\ p \notin ArchivePaths
                                                 /\ ReturnsCompatible(r, r.began, p)}
           /\ r.page = "manage" /\ r.pc \in AfterSelect =>
                /\ r.target \in r.compatible
                /\ r.target \notin ArchivePaths
                /\ ReturnsCompatible(r, r.began, r.target)
           /\ r.page = "manage" /\ r.pc = "edit" => r.df = read_csv(r.began[r.target])

\* an Edit save has overwritten the selected file while the stage held an
\* incompatible .csv, an object that is not a .csv, and an archived file
C11_Witness ==
    /\ run["u1"].page = "manage"
    /\ run["u1"].stored
    /\ Failed(run["u1"]) = {}
    /\ file_exists(run["u1"].began, OtherPath)
    /\ ~check_file_schema_compatibility(
           read_csv(run["u1"].began[OtherPath]), TableSchema, lenient).is_compatible
    /\ NotesPath \in run["u1"].listed
    /\ run["u1"].listed \cap ArchivePaths # {}
    /\ run["u1"].compatible = {ActivePath}

(***************************************************************************)
(* C12.                                                                    *)
(***************************************************************************)
\* page_df is some page of the editor over the loaded file
IsPageOf(page_df, df) ==
    \E rows_per_page \in PageSizes :
       \E page \in 1..((Len(df.rows) \div rows_per_page) + 1) :
          page_df = page_rows(df, rows_per_page, page)

\* C12: on "Save Changes" the dataset validated and the dataset written to
\* the selected file are the same one, the edited rows of the displayed
\* page; the file is replaced by that page, the rows outside it are neither
\* validated nor kept.
C12_SavedIsEditedPage ==
    \A u \in Sessions :
       LET r == run[u]
       IN  r.page = "manage" /\ r.verdict # "none" =>
              /\ IsPageOf(r.page_df, read_csv(r.began[r.target]))
              /\ r.edited \in edited_frames(r.page_df)
              /\ (r.verdict = "valid")
                    = validate_schema_match(r.edited, TableSchema, lenient).is_valid
              /\ r.pc \in {"rename_get", "rename_put", "upload"} => r.bytes = to_csv(r.edited)
              /\ r.stored =>
                    /\ store[r.target] = to_csv(r.edited)
                    /\ Len(store[r.target].data.rows) = Len(r.page_df.rows)

\* the first page of a file of two pages was saved over the active path:
\* the file lost its last row, which validation would have refused
C12_Witness ==
    LET r == run["u1"]
    IN  /\ r.page = "manage"
        /\ r.stored
        /\ Failed(r) = {}
        /\ r.target = ActivePath
        /\ Len(r.prev.data.rows) > Len(store[ActivePath].data.rows)
        /\ Len(store[ActivePath].data.rows) = MinRowsPerPage
        /\ ~validate_schema_match(read_csv(r.prev), TableSchema, lenient).is_valid

(***************************************************************************)
(* C13.                                                                    *)
(***************************************************************************)
LoggedOut == [show_main_app |-> FALSE, persona |-> "None"]

\* the flags are set together, and to (false, none), when main() first runs
C13_InitOnFirstAccess ==
    [][\A u \in Sessions :
          DOMAIN session_state[u] = {} /\ DOMAIN session_state'[u] # {}
             => session_state'[u] = LoggedOut]_vars

\* show_main_app = true implies persona = "Brand Finance", and the Upload
\* and Edit pages run only while show_main_app = true
C13_Routing ==
    \A u \in Sessions :
       /\ DOMAIN session_state[u] \in {{}, {"show_main_app", "persona"}}
       /\ DOMAIN session_state[u] # {} /\ session_state[u].show_main_app
             => session_state[u].persona = "Brand Finance"
       /\ run[u].pc # "idle"
             => DOMAIN session_state[u] # {} /\ session_state[u].show_main_app

\* once the run a click on "Logout" started is over, the flags are back at
\* (false, none) and the next run shows select_persona
C13_LogoutResets ==
    \A u \in Sessions :
       clicked[u] = "Logout" /\ run[u].pc = "idle"
          => /\ session_state[u] = LoggedOut
             /\ ENABLED Continue(u)

\* C13: over any sequence of reruns, "Continue" clicks and "Logout" clicks
\* show_main_app = true implies persona = "Brand Finance", the Upload and
\* Edit pages run only while show_main_app = true, and a click on "Logout"
\* returns the flags to (false, none) and the persona selection.
C13_SessionStore == C13_Routing /\ C13_LogoutResets

(***************************************************************************)
(* C14.                                                                    *)
(***************************************************************************)
\* some column the schema declares non-nullable holds a null cell
NullInNonNullable(df, schema) ==
    \E i \in DOMAIN schema :
       /\ schema[i].COLUMN_NAME \in Range(df.columns)
       /\ schema[i].IS_NULLABLE = "NO"
       /\ \E c \in Range(Column(df, schema[i].COLUMN_NAME)) : isnull(c)

\* some column the schema declares INTEGER holds a number with a fraction
FractionalInInteger(df, schema) ==
    \E i \in DOMAIN schema :
       /\ schema[i].COLUMN_NAME \in Range(df.columns)
       /\ schema[i].DATA_TYPE = "INTEGER"
       /\ \E c \in Range(Column(df, schema[i].COLUMN_NAME)) : c \in FractionalCells

\* C14: whatever validate_schema_match finds valid,
\* check_file_schema_compatibility finds compatible; and a dataset is
\* compatible without being valid exactly when it is compatible and holds a
\* null cell in a non-nullable column or a fractional value in an INTEGER
\* column.
C14_CompatibleWeakensValid ==
    vOut.done /\ vOut.checked =>
       /\ vOut.is_valid => vOut.is_compatible
       /\ (vOut.is_compatible /\ ~vOut.is_valid)
             <=> /\ vOut.is_compatible
                 /\ \/ NullInNonNullable(vIn.df, vIn.schema)
                    \/ FractionalInInteger(vIn.df, vIn.schema)

\* both checks have answered on a dataset with a fractional id and no null:
\* compatible, not valid
C14_Witness ==
    /\ vOut.done
    /\ vOut.checked
    /\ vOut.is_compatible
    /\ ~vOut.is_valid
    /\ FractionalInInteger(vIn.df, vIn.schema)
    /\ ~NullInNonNullable(vIn.df, vIn.schema)

\* The consequence for the workflows: what a save has written at a
\* non-archived path reads back compatible, and an Edit run that lists and
\* downloads it offers it for selection.
C14_SavedIsOffered ==
    /\ \A p \in csv_files(store) :
          store[p] # store0[p] =>
             check_file_schema_compatibility(read_csv(store[p]), TableSchema, lenient).is_compatible
    /\ \A u \in Sessions :
          run[u].page = "manage" /\ run[u].pc \in AfterFilter =>
             \A p \in run[u].checked :
                run[u].began[p] # store0[p] => p \in run[u].compatible

====
